---------------------------- MODULE Spec2Model ----------------------------
(***************************************************************************)
(* A state-machine model of src/polyfills/promise.js, the minimal ES2015   *)
(* Promise polyfill: the linked-list job queue, the promise objects, the   *)
(* resolve/reject pairs with their alreadyResolved latch, then(), all(),   *)
(* race() and the host-driven Promise.runQueue() loop.                     *)
(*                                                                         *)
(* Heap objects are numbered in allocation order: promise p is the p-th    *)
(* promise constructed, pair k the k-th result of                          *)
(* createResolutionFunctions, job j the j-th object handed to enqueueJob.  *)
(* A reference is the number; 0 stands for null / undefined.               *)
(***************************************************************************)
EXTENDS Naturals, Sequences, FiniteSets, TLC

VARIABLES
    prom,        \* promise objects: [state, value, fulfillReactions, rejectReactions],
                 \* and as history 'writes': how often state and value were assigned,
                 \* and 'seq': its place in the order of the settlements
    pairs,       \* createResolutionFunctions closures: [p, alreadyResolved]
    jobs,        \* every job object ever created, with its 'next' reference
    queueHead,   \* var queueHead
    queueTail,   \* var queueTail
    alls,        \* closures of the all() calls: [values, remaining, resolveFn, rejectFn, alreadyCalled]
    regLog,      \* history: the then() calls in call order: <<source, derived,
                 \* state of the source at the call>>
    deqLog,      \* history: the jobs returned by dequeueJob, in order
    runLog,      \* history: the handlers and then methods invoked, in order
    hostPairs,   \* the pairs whose resolve/reject user code kept a reference to
    pc,          \* where the host is: "idle", or "runQueue" inside _runQueueUntilEmpty
    drain,       \* history: [deq, enq], the number of jobs dequeued and of jobs
                 \* created before the latest call of Promise.runQueue()
    aggLog,      \* history: the all() and race() calls, [fn, list, p]
    nestLog,     \* history: the calls of Promise.runQueue() made by a handler or a
                 \* then method while a job runs, [after, from, to, enq, settled]
    escaped      \* the error the last public call raised to its caller, if any

vars == <<prom, pairs, jobs, queueHead, queueTail, alls, regLog, deqLog, runLog,
          hostPairs, pc, drain, aggLog, nestLog, escaped>>

-----------------------------------------------------------------------------
(* Bounds of the model. *)

\* Promises the host may have constructed before it stops constructing more.
MaxProm == 2

-----------------------------------------------------------------------------
(* Values.  Every JavaScript value of the model is a record of one shape.  *)

Pending   == "pending"      \* p.state === undefined
Fulfilled == "fulfilled"    \* p.state === true
Rejected  == "rejected"     \* p.state === false

Undefined     == [k |-> "undefined", n |-> 0, a |-> <<>>]
IntV(n)       == [k |-> "int", n |-> n, a |-> <<>>]
PromV(p)      == [k |-> "promise", n |-> p, a |-> <<>>]
ArrV(s)       == [k |-> "array", n |-> 0, a |-> s]
\* new TypeError('self resolution')
TypeErrorV    == [k |-> "TypeError", n |-> 0, a |-> <<>>]
\* an object whose 'then' getter throws IntV(n)
GetterThrowsV(n) == [k |-> "getterThrows", n |-> n, a |-> <<>>]
\* an object with a callable 'then' that is not a Promise; its then method
\* performs the steps b on the resolve/reject it is handed
ThenableV(b)  == [k |-> "thenable", n |-> 0, a |-> b]

\* One step of a foreign then method: "resolve", "reject" (a call of the
\* function it was handed), "throw", "resolvePromise" (resolve called with
\* promise n) or "keep" (the functions are stored for the host to call
\* later).  The argument is IntV(n), or the thenable ThenableV(a) when a is
\* not empty.
Step(op, n, a) == [k |-> op, n |-> n, a |-> a]
StepArg(s) ==
    IF s.k = "resolvePromise" THEN PromV(s.n)
    ELSE IF s.a = <<>> THEN IntV(s.n) ELSE ThenableV(s.a)

\* Handlers: the sentinel strings 'Identity' and 'Thrower', the resolve and
\* reject functions of pair n, promiseAllElement number n of all() call i,
\* user functions that return v or throw v, and a user function that calls
\* then() on promise n before it returns v.
Handler(h, n, i, v) == [h |-> h, n |-> n, i |-> i, v |-> v]
NoHandler     == Handler("undefined", 0, 0, Undefined)
Identity      == Handler("Identity", 0, 0, Undefined)
Thrower       == Handler("Thrower", 0, 0, Undefined)
ResolveOf(k)  == Handler("resolve", k, 0, Undefined)
RejectOf(k)   == Handler("reject", k, 0, Undefined)
AllElement(i, n) == Handler("promiseAllElement", n, i, Undefined)
Returns(v)    == Handler("return", 0, 0, v)
Throws(v)     == Handler("throw", 0, 0, v)
Registers(n, v) == Handler("register", n, 0, v)
\* a user function that calls Promise.runQueue() before it returns v
Drains(v)     == Handler("drain", 0, 0, v)

\* typeof h === 'function'
IsCallable(h) ==
    h.h \in {"resolve", "reject", "promiseAllElement", "return", "throw", "register",
             "drain"}

\* The outcome of a call: the state after it, the value it returned, and
\* the error it threw (exc) if it threw.
Ok(st, ret)  == [st |-> st, exc |-> FALSE, val |-> ret]
Exc(st, err) == [st |-> st, exc |-> TRUE, val |-> err]

-----------------------------------------------------------------------------
(* The program state as one record, so that nested calls compose. *)

Cur == [prom |-> prom, pairs |-> pairs, jobs |-> jobs, queueHead |-> queueHead,
        queueTail |-> queueTail, alls |-> alls, regLog |-> regLog,
        deqLog |-> deqLog, runLog |-> runLog, hostPairs |-> hostPairs,
        nestLog |-> nestLog]

Commit(st) ==
    /\ prom' = st.prom
    /\ pairs' = st.pairs
    /\ jobs' = st.jobs
    /\ queueHead' = st.queueHead
    /\ queueTail' = st.queueTail
    /\ alls' = st.alls
    /\ regLog' = st.regLog
    /\ deqLog' = st.deqLog
    /\ runLog' = st.runLog
    /\ hostPairs' = st.hostPairs
    /\ nestLog' = st.nestLog

-----------------------------------------------------------------------------
(* Job queue: a linked list through the jobs' 'next' references. *)

\* A variant of enqueueJob without 'queueTail.next = job'.
enqueueJobUnlinked(st, job) ==
    LET id == Len(st.jobs) + 1
        j  == [job EXCEPT !.next = 0]
    IN  IF st.queueHead # 0
        THEN [st EXCEPT !.jobs = Append(@, j), !.queueTail = id]
        ELSE [st EXCEPT !.jobs = Append(@, j), !.queueHead = id, !.queueTail = id]

enqueueJob(st, job) ==
    LET id == Len(st.jobs) + 1
        j  == [job EXCEPT !.next = 0]
    IN  IF st.queueHead # 0
        THEN [st EXCEPT !.jobs = Append([@ EXCEPT ![st.queueTail].next = id], j),
                        !.queueTail = id]
        ELSE [st EXCEPT !.jobs = Append(@, j),
                        !.queueHead = id,
                        !.queueTail = id]

\* Returns the state after the call and the job returned (0: none).
dequeueJob(st) ==
    LET ret == st.queueHead
    IN  IF ret # 0
        THEN LET head == st.jobs[ret].next
             IN  [st  |-> [st EXCEPT !.queueHead = head,
                                     !.queueTail = IF head = 0 THEN 0 ELSE @,
                                     !.deqLog = Append(@, ret)],
                  ret |-> ret]
        ELSE [st |-> st, ret |-> 0]

ThenableJob(val, k) ==
    [thenable |-> val, then |-> "function", handler |-> NoHandler,
     resolve |-> k, reject |-> k, value |-> Undefined, next |-> 0]

ReactionJob(r, val) ==
    [thenable |-> Undefined, then |-> "undefined", handler |-> r.handler,
     resolve |-> r.resolve, reject |-> r.reject, value |-> val, next |-> 0]

Reaction(h, k) == [handler |-> h, resolve |-> k, reject |-> k]

-----------------------------------------------------------------------------
(* Raw fulfill/reject. *)

\* reactions.forEach(function (r) { enqueueJob({...r, value: val}) })
RECURSIVE EnqueueReactions(_, _, _)
EnqueueReactions(st, reactions, val) ==
    IF reactions = <<>> THEN st
    ELSE EnqueueReactions(enqueueJob(st, ReactionJob(Head(reactions), val)),
                          Tail(reactions), val)

\* p.state = ...; p.value = val; delete p.fulfillReactions;
\* delete p.rejectReactions
Settle(st, p, state, val) ==
    [st EXCEPT !.prom[p] = [state |-> state, value |-> val,
                            fulfillReactions |-> <<>>, rejectReactions |-> <<>>,
                            writes |-> @.writes + 1,
                            seq |-> 1 + Cardinality({q \in 1 .. Len(st.prom) :
                                                       st.prom[q].state # Pending})]]

doFulfill(st, p, val) ==
    IF st.prom[p].state # Pending THEN st
    ELSE EnqueueReactions(Settle(st, p, Fulfilled, val),
                          st.prom[p].fulfillReactions, val)

\* A variant of doReject that takes the reactions from p.fulfillReactions.
doRejectFulfillList(st, p, val) ==
    IF st.prom[p].state # Pending THEN st
    ELSE EnqueueReactions(Settle(st, p, Rejected, val),
                          st.prom[p].fulfillReactions, val)

doReject(st, p, val) ==
    IF st.prom[p].state # Pending THEN st
    ELSE EnqueueReactions(Settle(st, p, Rejected, val),
                          st.prom[p].rejectReactions, val)

-----------------------------------------------------------------------------
(* Resolution pairs. *)

\* The new pair is number Len(pairs) of the state returned.
createResolutionFunctions(st, p) ==
    [st EXCEPT !.pairs = Append(@, [p |-> p, alreadyResolved |-> FALSE])]

\* A variant of the reject function that writes the rejection without
\* looking at alreadyResolved or at p.state.
RejectFnUnguarded(st, k, err) ==
    LET p == st.pairs[k].p
    IN  EnqueueReactions(Settle(st, p, Rejected, err), st.prom[p].rejectReactions, err)

\* A variant of the reject function without the test of alreadyResolved.
RejectFnNoLatchTest(st, k, err) ==
    LET s1 == [st EXCEPT !.pairs[k].alreadyResolved = TRUE]
        p  == st.pairs[k].p
    IN  IF s1.prom[p].state # Pending THEN s1
        ELSE doReject(s1, p, err)

RejectFn(st, k, err) ==
    IF st.pairs[k].alreadyResolved THEN st
    ELSE LET s1 == [st EXCEPT !.pairs[k].alreadyResolved = TRUE]
             p  == st.pairs[k].p
         IN  IF s1.prom[p].state # Pending THEN s1
             ELSE doReject(s1, p, err)

\* var then = (val !== null && typeof val === 'object' && val.then):
\* the read throws, or yields a function, or yields something else.
GetThen(val) ==
    CASE val.k = "getterThrows" -> [exc |-> TRUE, err |-> IntV(val.n), callable |-> FALSE]
      [] val.k \in {"promise", "thenable"} -> [exc |-> FALSE, err |-> Undefined, callable |-> TRUE]
      [] OTHER -> [exc |-> FALSE, err |-> Undefined, callable |-> FALSE]

\* A variant of the resolve function that hands the thenable job its own
\* resolve and reject instead of those of a new pair.
ResolveFnOldPair(st, k, val) ==
    IF st.pairs[k].alreadyResolved THEN st
    ELSE LET s1 == [st EXCEPT !.pairs[k].alreadyResolved = TRUE]
             p  == st.pairs[k].p
             then == GetThen(val)
         IN  IF s1.prom[p].state # Pending THEN s1
             ELSE IF val = PromV(p) THEN doReject(s1, p, TypeErrorV)
             ELSE IF then.exc THEN doReject(s1, p, then.err)
             ELSE IF then.callable THEN enqueueJob(s1, ThenableJob(val, k))
             ELSE doFulfill(s1, p, val)

\* A variant of the resolve function without the 'val === p' test.
ResolveFnNoSelfCheck(st, k, val) ==
    IF st.pairs[k].alreadyResolved THEN st
    ELSE LET s1 == [st EXCEPT !.pairs[k].alreadyResolved = TRUE]
             p  == st.pairs[k].p
             then == GetThen(val)
         IN  IF s1.prom[p].state # Pending THEN s1
             ELSE IF then.exc THEN doReject(s1, p, then.err)
             ELSE IF then.callable
                  THEN LET s2 == createResolutionFunctions(s1, p)
                       IN  enqueueJob(s2, ThenableJob(val, Len(s2.pairs)))
                  ELSE doFulfill(s1, p, val)

\* A variant of the resolve function without 'alreadyResolved = true'.
ResolveFnNoLatch(st, k, val) ==
    IF st.pairs[k].alreadyResolved THEN st
    ELSE LET s1 == st
             p  == st.pairs[k].p
             then == GetThen(val)
         IN  IF s1.prom[p].state # Pending THEN s1
             ELSE IF val = PromV(p) THEN doReject(s1, p, TypeErrorV)
             ELSE IF then.exc THEN doReject(s1, p, then.err)
             ELSE IF then.callable
                  THEN LET s2 == createResolutionFunctions(s1, p)
                       IN  enqueueJob(s2, ThenableJob(val, Len(s2.pairs)))
                  ELSE doFulfill(s1, p, val)

\* A variant of the resolve function whose catch block is empty.
ResolveFnEmptyCatch(st, k, val) ==
    IF st.pairs[k].alreadyResolved THEN st
    ELSE LET s1 == [st EXCEPT !.pairs[k].alreadyResolved = TRUE]
             p  == st.pairs[k].p
             then == GetThen(val)
         IN  IF s1.prom[p].state # Pending THEN s1
             ELSE IF val = PromV(p) THEN doReject(s1, p, TypeErrorV)
             ELSE IF then.exc THEN s1
             ELSE IF then.callable
                  THEN LET s2 == createResolutionFunctions(s1, p)
                       IN  enqueueJob(s2, ThenableJob(val, Len(s2.pairs)))
                  ELSE doFulfill(s1, p, val)

ResolveFn(st, k, val) ==
    IF st.pairs[k].alreadyResolved THEN st
    ELSE LET s1 == [st EXCEPT !.pairs[k].alreadyResolved = TRUE]
             p  == st.pairs[k].p
             then == GetThen(val)
         IN  IF s1.prom[p].state # Pending THEN s1
             ELSE IF val = PromV(p) THEN doReject(s1, p, TypeErrorV)
             ELSE IF then.exc THEN doReject(s1, p, then.err)
             ELSE IF then.callable
                  THEN LET s2 == createResolutionFunctions(s1, p)
                       IN  enqueueJob(s2, ThenableJob(val, Len(s2.pairs)))
                  ELSE doFulfill(s1, p, val)

-----------------------------------------------------------------------------
(* The constructor and then(). *)

\* new TypeError('executor must be callable'), new TypeError('Promise required')
ExecutorError == [k |-> "TypeError", n |-> 1, a |-> <<>>]
ReceiverError == [k |-> "TypeError", n |-> 2, a |-> <<>>]
\* new Error('internal error')
InternalError == [k |-> "Error", n |-> 0, a |-> <<>>]

Call(op, v) == [op |-> op, v |-> v]

\* An executor: a function whose body makes the calls given, or a value
\* that is not a function.
Executor(body) == [callable |-> TRUE, body |-> body]
NotAFunction   == [callable |-> FALSE, body |-> <<>>]

\* Promise.runQueue() called by user code while a job runs: the loop
\* 'while (runQueueEntry()) {}' (defined with runQueueEntry below), and the
\* record of the call: the job started last before it, the numbers of jobs
\* dequeued before and after it, and the numbers of jobs created and of
\* promises settled when it returned.
RECURSIVE runQueueUntilEmpty(_)
runQueueNested(st) ==
    LET Done(r) ==
            IF r.exc THEN r
            ELSE Ok([r.st EXCEPT !.nestLog =
                        Append(@, [after   |-> st.runLog[Len(st.runLog)],
                                   from    |-> Len(st.deqLog),
                                   to      |-> Len(r.st.deqLog),
                                   enq     |-> Len(r.st.jobs),
                                   settled |-> Cardinality({q \in 1 .. Len(r.st.prom) :
                                                  r.st.prom[q].state # Pending})])],
                    Undefined)
    IN  Done(runQueueUntilEmpty(st))

\* The calls a foreign then method with steps b makes.
RECURSIVE StepsToCalls(_)
StepsToCalls(b) ==
    IF b = <<>> THEN <<>>
    ELSE <<Call(IF Head(b).k = "resolvePromise" THEN "resolve" ELSE Head(b).k,
                StepArg(Head(b)))>> \o StepsToCalls(Tail(b))

\* A user function body handed the functions of pair k: it calls resolve
\* and reject in the order given, may keep them for later, and stops at a
\* throw.
RECURSIVE RunCalls(_, _, _)
RunCalls(st, k, calls) ==
    IF calls = <<>> THEN Ok(st, Undefined)
    ELSE LET c == Head(calls)
         IN  CASE c.op = "resolve" -> RunCalls(ResolveFn(st, k, c.v), k, Tail(calls))
               [] c.op = "reject"  -> RunCalls(RejectFn(st, k, c.v), k, Tail(calls))
               [] c.op = "keep"    -> RunCalls([st EXCEPT !.hostPairs = @ \cup {k}],
                                               k, Tail(calls))
               [] c.op = "drain"   ->
                     LET Back(r) == IF r.exc THEN r ELSE RunCalls(r.st, k, Tail(calls))
                     IN  Back(runQueueNested(st))
               [] OTHER            -> Exc(st, c.v)

NewPromise == [state |-> Pending, value |-> Undefined,
               fulfillReactions |-> <<>>, rejectReactions |-> <<>>, writes |-> 0,
               seq |-> 0]

\* A variant of the constructor without the try/catch around the executor.
PromiseNoCatch(st, executor) ==
    IF ~executor.callable THEN Exc(st, ExecutorError)
    ELSE LET p == Len(st.prom) + 1
             t == Len(st.pairs) + 1
             Caught(r) == IF r.exc THEN r ELSE Ok(r.st, p)
         IN  Caught(RunCalls(createResolutionFunctions(
                                 [st EXCEPT !.prom = Append(@, NewPromise)], p),
                             t, executor.body))

\* new Promise(executor).  The outcome's val is the number of the promise
\* constructed; its pair t is number Len(st.pairs) + 1.
Promise(st, executor) ==
    IF ~executor.callable THEN Exc(st, ExecutorError)
    ELSE LET p == Len(st.prom) + 1
             t == Len(st.pairs) + 1
             \* try { executor(t.resolve, t.reject) } catch (e) { t.reject(e) }
             Caught(r) == Ok(IF r.exc THEN RejectFn(r.st, t, r.val) ELSE r.st, p)
         IN  Caught(RunCalls(createResolutionFunctions(
                                 [st EXCEPT !.prom = Append(@, NewPromise)], p),
                             t, executor.body))

\* A variant of then() that puts the new reactions in front of the lists.
thenUnshift(st, this, onFulfilled, onRejected) ==
    IF this.k # "promise" THEN Exc(st, ReceiverError)
    ELSE LET resolveFn == Len(st.pairs) + 1
             rejectFn  == Len(st.pairs) + 1
             onF == IF IsCallable(onFulfilled) THEN onFulfilled ELSE Identity
             onR == IF IsCallable(onRejected) THEN onRejected ELSE Thrower
             \* the part after 'new Promise': s2 is the state it left, p
             \* the promise it made
             Register(s2, p) ==
                 LET src == s2.prom[this.n]
                 IN  IF src.state = Pending
                     THEN Ok([s2 EXCEPT
                                !.prom[this.n].fulfillReactions = <<Reaction(onF, resolveFn)>> \o @,
                                !.prom[this.n].rejectReactions = <<Reaction(onR, rejectFn)>> \o @],
                             p)
                     ELSE IF src.state = Fulfilled
                     THEN Ok(enqueueJob(s2, ReactionJob(Reaction(onF, resolveFn), src.value)), p)
                     ELSE Ok(enqueueJob(s2, ReactionJob(Reaction(onR, rejectFn), src.value)), p)
             Made(c) ==
                 IF c.exc THEN c
                 ELSE Register([c.st EXCEPT !.regLog =
                                   Append(@, <<this.n, c.val, st.prom[this.n].state>>)],
                               c.val)
         IN  Made(Promise(st, Executor(<<>>)))

\* A variant of then() whose default for onRejected is 'Identity'.
thenIdentityDefault(st, this, onFulfilled, onRejected) ==
    IF this.k # "promise" THEN Exc(st, ReceiverError)
    ELSE LET resolveFn == Len(st.pairs) + 1
             rejectFn  == Len(st.pairs) + 1
             onF == IF IsCallable(onFulfilled) THEN onFulfilled ELSE Identity
             onR == IF IsCallable(onRejected) THEN onRejected ELSE Identity
             \* the part after 'new Promise': s2 is the state it left, p
             \* the promise it made
             Register(s2, p) ==
                 LET src == s2.prom[this.n]
                 IN  IF src.state = Pending
                     THEN Ok([s2 EXCEPT
                                !.prom[this.n].fulfillReactions = Append(@, Reaction(onF, resolveFn)),
                                !.prom[this.n].rejectReactions = Append(@, Reaction(onR, rejectFn))],
                             p)
                     ELSE IF src.state = Fulfilled
                     THEN Ok(enqueueJob(s2, ReactionJob(Reaction(onF, resolveFn), src.value)), p)
                     ELSE Ok(enqueueJob(s2, ReactionJob(Reaction(onR, rejectFn), src.value)), p)
             Made(c) ==
                 IF c.exc THEN c
                 ELSE Register([c.st EXCEPT !.regLog =
                                   Append(@, <<this.n, c.val, st.prom[this.n].state>>)],
                               c.val)
         IN  Made(Promise(st, Executor(<<>>)))

\* A variant of then() that passes the value of a fulfilled source on at
\* once when there is no onFulfilled.
thenSync(st, this, onFulfilled, onRejected) ==
    IF this.k # "promise" THEN Exc(st, ReceiverError)
    ELSE LET resolveFn == Len(st.pairs) + 1
             rejectFn  == Len(st.pairs) + 1
             onF == IF IsCallable(onFulfilled) THEN onFulfilled ELSE Identity
             onR == IF IsCallable(onRejected) THEN onRejected ELSE Thrower
             \* the part after 'new Promise': s2 is the state it left, p
             \* the promise it made
             Register(s2, p) ==
                 LET src == s2.prom[this.n]
                 IN  IF src.state = Pending
                     THEN Ok([s2 EXCEPT
                                !.prom[this.n].fulfillReactions = Append(@, Reaction(onF, resolveFn)),
                                !.prom[this.n].rejectReactions = Append(@, Reaction(onR, rejectFn))],
                             p)
                     ELSE IF src.state = Fulfilled
                     THEN Ok(IF onF = Identity THEN ResolveFn(s2, resolveFn, src.value)
                             ELSE enqueueJob(s2, ReactionJob(Reaction(onF, resolveFn), src.value)), p)
                     ELSE Ok(enqueueJob(s2, ReactionJob(Reaction(onR, rejectFn), src.value)), p)
             Made(c) ==
                 IF c.exc THEN c
                 ELSE Register([c.st EXCEPT !.regLog =
                                   Append(@, <<this.n, c.val, st.prom[this.n].state>>)],
                               c.val)
         IN  Made(Promise(st, Executor(<<>>)))

\* this.then(onFulfilled, onRejected).  The outcome's val is the number of
\* the derived promise.
then(st, this, onFulfilled, onRejected) ==
    IF this.k # "promise" THEN Exc(st, ReceiverError)
    ELSE LET resolveFn == Len(st.pairs) + 1
             rejectFn  == Len(st.pairs) + 1
             onF == IF IsCallable(onFulfilled) THEN onFulfilled ELSE Identity
             onR == IF IsCallable(onRejected) THEN onRejected ELSE Thrower
             \* the part after 'new Promise': s2 is the state it left, p
             \* the promise it made
             Register(s2, p) ==
                 LET src == s2.prom[this.n]
                 IN  IF src.state = Pending
                     THEN Ok([s2 EXCEPT
                                !.prom[this.n].fulfillReactions = Append(@, Reaction(onF, resolveFn)),
                                !.prom[this.n].rejectReactions = Append(@, Reaction(onR, rejectFn))],
                             p)
                     ELSE IF src.state = Fulfilled
                     THEN Ok(enqueueJob(s2, ReactionJob(Reaction(onF, resolveFn), src.value)), p)
                     ELSE Ok(enqueueJob(s2, ReactionJob(Reaction(onR, rejectFn), src.value)), p)
             Made(c) ==
                 IF c.exc THEN c
                 ELSE Register([c.st EXCEPT !.regLog =
                                   Append(@, <<this.n, c.val, st.prom[this.n].state>>)],
                               c.val)
         IN  Made(Promise(st, Executor(<<>>)))

\* this.catch(onRejected)
catch(st, this, onRejected) == then(st, this, NoHandler, onRejected)

\* Promise.resolve(val): the outcome's val is the number of the promise.
resolve(st, val) ==
    IF val.k = "promise" THEN Ok(st, val.n)
    ELSE Promise(st, Executor(<<Call("resolve", val)>>))

\* Promise.reject(val)
reject(st, val) == Promise(st, Executor(<<Call("reject", val)>>))

\* Promise.try(func) for a func that makes the call given: returns c.v
\* (op "resolve") or throws c.v (op "throw")
try(st, c) == Promise(st, Executor(<<c>>))

-----------------------------------------------------------------------------
(* all() and race(). *)

\* values[index] = val on a JavaScript array (index from 0): a write past
\* the end leaves holes, which read as undefined.
RECURSIVE ArraySet(_, _, _)
ArraySet(values, index, val) ==
    IF index < Len(values) THEN [values EXCEPT ![index + 1] = val]
    ELSE IF index = Len(values) THEN Append(values, val)
    ELSE ArraySet(Append(values, Undefined), index, val)

\* A variant of promiseAllElement with values.push(val).
promiseAllElementPush(st, i, index, val) ==
    LET c == st.alls[i]
    IN  IF index \in c.alreadyCalled THEN st
        ELSE LET s1 == [st EXCEPT !.alls[i].alreadyCalled = @ \cup {index},
                                  !.alls[i].values = Append(@, val),
                                  !.alls[i].remaining = @ - 1]
             IN  IF s1.alls[i].remaining = 0
                 THEN ResolveFn(s1, c.resolveFn, ArrV(s1.alls[i].values))
                 ELSE s1

\* function promiseAllElement(val) of all() call i, with F.index = index
promiseAllElement(st, i, index, val) ==
    LET c == st.alls[i]
    IN  IF index \in c.alreadyCalled THEN st
        ELSE LET s1 == [st EXCEPT !.alls[i].alreadyCalled = @ \cup {index},
                                  !.alls[i].values = ArraySet(@, index, val),
                                  !.alls[i].remaining = @ - 1]
             IN  IF s1.alls[i].remaining = 0
                 THEN ResolveFn(s1, c.resolveFn, ArrV(s1.alls[i].values))
                 ELSE s1

\* A variant of the forEach of all() that registers t.then(f).
RECURSIVE AllForEachNoReject(_, _, _, _)
AllForEachNoReject(st, i, list, index) ==
    IF list = <<>> THEN Ok(st, Undefined)
    ELSE LET Rest(r) == IF r.exc THEN r
                        ELSE AllForEachNoReject(r.st, i, Tail(list), index + 1)
             \* t is what Promise.resolve(x) returned
             Element(t) ==
                 IF t.exc THEN t
                 ELSE Rest(then([t.st EXCEPT !.alls[i].remaining = @ + 1],
                                PromV(t.val), AllElement(i, index),
                                NoHandler))
         IN  Element(resolve(st, Head(list)))

\* A variant of the forEach of all() without 'remaining++'.
RECURSIVE AllForEachNoIncrement(_, _, _, _)
AllForEachNoIncrement(st, i, list, index) ==
    IF list = <<>> THEN Ok(st, Undefined)
    ELSE LET Rest(r) == IF r.exc THEN r
                        ELSE AllForEachNoIncrement(r.st, i, Tail(list), index + 1)
             Element(t) ==
                 IF t.exc THEN t
                 ELSE Rest(then(t.st, PromV(t.val), AllElement(i, index),
                                RejectOf(t.st.alls[i].rejectFn)))
         IN  Element(resolve(st, Head(list)))

\* list.forEach(function (x) {...}) of all() call i, from element 'index' on
RECURSIVE AllForEach(_, _, _, _)
AllForEach(st, i, list, index) ==
    IF list = <<>> THEN Ok(st, Undefined)
    ELSE LET Rest(r) == IF r.exc THEN r
                        ELSE AllForEach(r.st, i, Tail(list), index + 1)
             \* t is what Promise.resolve(x) returned
             Element(t) ==
                 IF t.exc THEN t
                 ELSE Rest(then([t.st EXCEPT !.alls[i].remaining = @ + 1],
                                PromV(t.val), AllElement(i, index),
                                RejectOf(t.st.alls[i].rejectFn)))
         IN  Element(resolve(st, Head(list)))

\* A variant of all() whose final decrement is not followed by the test for 0.
allNoFinalCheck(st, list) ==
    LET fn == Len(st.pairs) + 1
        i  == Len(st.alls) + 1
        \* --remaining
        Last(s4, p) ==
            Ok(s4, p)
        Each(e, p) == IF e.exc THEN e
                      ELSE Last([e.st EXCEPT !.alls[i].remaining = @ - 1], p)
        Made(c) ==
            IF c.exc THEN c
            ELSE Each(AllForEach([c.st EXCEPT !.alls =
                                     Append(@, [values |-> <<>>, remaining |-> 1,
                                                resolveFn |-> fn, rejectFn |-> fn,
                                                alreadyCalled |-> {}])],
                                 i, list, 0),
                      c.val)
    IN  Made(Promise(st, Executor(<<>>)))

\* Promise.all(list) for an array list; the outcome's val is the promise
\* returned.
all(st, list) ==
    LET fn == Len(st.pairs) + 1
        i  == Len(st.alls) + 1
        \* if (--remaining === 0) { resolveFn.call(void 0, values) }
        Last(s4, p) ==
            IF s4.alls[i].remaining = 0
            THEN Ok(ResolveFn(s4, fn, ArrV(s4.alls[i].values)), p)
            ELSE Ok(s4, p)
        Each(e, p) == IF e.exc THEN e
                      ELSE Last([e.st EXCEPT !.alls[i].remaining = @ - 1], p)
        Made(c) ==
            IF c.exc THEN c
            ELSE Each(AllForEach([c.st EXCEPT !.alls =
                                     Append(@, [values |-> <<>>, remaining |-> 1,
                                                resolveFn |-> fn, rejectFn |-> fn,
                                                alreadyCalled |-> {}])],
                                 i, list, 0),
                      c.val)
    IN  Made(Promise(st, Executor(<<>>)))

\* A variant of the forEach of race() that registers t.then(resolveFn).
RECURSIVE RaceForEachNoReject(_, _, _)
RaceForEachNoReject(st, fn, list) ==
    IF list = <<>> THEN Ok(st, Undefined)
    ELSE LET Rest(r) == IF r.exc THEN r ELSE RaceForEachNoReject(r.st, fn, Tail(list))
             Element(t) ==
                 IF t.exc THEN t
                 ELSE Rest(then(t.st, PromV(t.val), ResolveOf(fn), NoHandler))
         IN  Element(resolve(st, Head(list)))

\* list.forEach(function (x) {...}) of a race() call whose pair is fn
RECURSIVE RaceForEach(_, _, _)
RaceForEach(st, fn, list) ==
    IF list = <<>> THEN Ok(st, Undefined)
    ELSE LET Rest(r) == IF r.exc THEN r ELSE RaceForEach(r.st, fn, Tail(list))
             Element(t) ==
                 IF t.exc THEN t
                 ELSE Rest(then(t.st, PromV(t.val), ResolveOf(fn), RejectOf(fn)))
         IN  Element(resolve(st, Head(list)))

\* Promise.race(list) for an array list
race(st, list) ==
    LET Each(e, p) == IF e.exc THEN e ELSE Ok(e.st, p)
        Made(c) == IF c.exc THEN c
                   ELSE Each(RaceForEach(c.st, Len(st.pairs) + 1, list), c.val)
    IN  Made(Promise(st, Executor(<<>>)))

-----------------------------------------------------------------------------
(* Running one job. *)

\* job.handler.call(void 0, value) for a callable handler
CallHandler(st, h, value) ==
    CASE h.h = "resolve" -> Ok(ResolveFn(st, h.n, value), Undefined)
      [] h.h = "reject"  -> Ok(RejectFn(st, h.n, value), Undefined)
      [] h.h = "promiseAllElement" -> Ok(promiseAllElement(st, h.i, h.n, value), Undefined)
      [] h.h = "return"  -> Ok(st, h.v)
      [] h.h = "register" ->
            LET Registered(r) == IF r.exc THEN r ELSE Ok(r.st, h.v)
            IN  Registered(then(st, PromV(h.n), NoHandler, NoHandler))
      [] h.h = "drain" ->
            LET Back(r) == IF r.exc THEN r ELSE Ok(r.st, h.v)
            IN  Back(runQueueNested(st))
      [] OTHER           -> Exc(st, h.v)

\* A variant of the call of job.then with job.reject and job.resolve swapped.
CallThenSwapped(st, thenable, resolveFn, rejectFn) ==
    IF thenable.k = "promise"
    THEN then(st, thenable, RejectOf(rejectFn), ResolveOf(resolveFn))
    ELSE RunCalls(st, resolveFn, StepsToCalls(thenable.a))

\* job.then.call(job.thenable, job.resolve, job.reject): Promise.prototype.then
\* for a promise, the object's own then method otherwise
CallThen(st, thenable, resolveFn, rejectFn) ==
    IF thenable.k = "promise"
    THEN then(st, thenable, ResolveOf(resolveFn), RejectOf(rejectFn))
    ELSE RunCalls(st, resolveFn, StepsToCalls(thenable.a))

\* A variant of the job body whose catch block for a reaction handler calls
\* job.resolve(e).
RunJobResolveOnThrow(d) ==
    LET job == d.st.jobs[d.ret]
        s1  == [d.st EXCEPT !.runLog = Append(@, d.ret)]
        Called(r) == Ok(IF r.exc THEN RejectFn(r.st, job.reject, r.val) ELSE r.st, TRUE)
        Handled(r) == Ok(ResolveFn(r.st, job.resolve, r.val), TRUE)
    IN  IF job.then # "undefined" /\ job.resolve # 0 /\ job.reject # 0
        THEN Called(CallThen(s1, job.thenable, job.resolve, job.reject))
        ELSE IF job.handler # NoHandler /\ job.resolve # 0 /\ job.reject # 0
        THEN Handled(IF job.handler = Identity THEN Ok(s1, job.value)
                     ELSE IF job.handler = Thrower THEN Exc(s1, job.value)
                     ELSE CallHandler(s1, job.handler, job.value))
        ELSE Exc(d.st, InternalError)

\* The body of runQueueEntry after a job was dequeued: d is what
\* dequeueJob returned.  The outcome's val is the boolean returned; exc is
\* the 'internal error'.
RunJob(d) ==
    LET job == d.st.jobs[d.ret]
        s1  == [d.st EXCEPT !.runLog = Append(@, d.ret)]
        \* try { job.then.call(...) } catch (e) { job.reject(e) }
        Called(r) == Ok(IF r.exc THEN RejectFn(r.st, job.reject, r.val) ELSE r.st, TRUE)
        \* try { res = ...; job.resolve(res) } catch (e) { job.reject(e) }
        Handled(r) == Ok(IF r.exc THEN RejectFn(r.st, job.reject, r.val)
                                  ELSE ResolveFn(r.st, job.resolve, r.val), TRUE)
    IN  IF job.then # "undefined" /\ job.resolve # 0 /\ job.reject # 0
        THEN Called(CallThen(s1, job.thenable, job.resolve, job.reject))
        ELSE IF job.handler # NoHandler /\ job.resolve # 0 /\ job.reject # 0
        THEN Handled(IF job.handler = Identity THEN Ok(s1, job.value)
                     ELSE IF job.handler = Thrower THEN Exc(s1, job.value)
                     ELSE CallHandler(s1, job.handler, job.value))
        ELSE Exc(d.st, InternalError)

\* A variant of runQueueEntry without the final 'return true'.
runQueueEntryNoReturn(st) ==
    LET d == dequeueJob(st)
    IN  IF d.ret = 0 THEN Ok(d.st, FALSE)
        ELSE [RunJob(d) EXCEPT !.val = FALSE]

runQueueEntry(st) ==
    LET d == dequeueJob(st)
    IN  IF d.ret = 0 THEN Ok(d.st, FALSE)
        ELSE RunJob(d)

\* A variant of the loop of Promise.runQueue() with 'if' for 'while'.
runQueueOnce(st) ==
    LET Entry(r) == IF r.exc THEN r ELSE Ok(r.st, Undefined)
    IN  Entry(runQueueEntry(st))

\* function _runQueueUntilEmpty() { while (runQueueEntry()) {} }
runQueueUntilEmpty(st) ==
    LET Entry(r) == IF r.exc THEN r
                    ELSE IF r.val THEN runQueueUntilEmpty(r.st)
                    ELSE Ok(r.st, Undefined)
    IN  Entry(runQueueEntry(st))

-----------------------------------------------------------------------------
(* The host program: the calls it makes between and around drain. *)

NoError == Undefined

\* A public call returned or raised: the state it left, and what it raised.
Return(r) ==
    /\ Commit(r.st)
    /\ escaped' = IF r.exc THEN r.val ELSE NoError

Init ==
    /\ prom = <<>>
    /\ pairs = <<>>
    /\ jobs = <<>>
    /\ queueHead = 0
    /\ queueTail = 0
    /\ alls = <<>>
    /\ regLog = <<>>
    /\ deqLog = <<>>
    /\ runLog = <<>>
    /\ hostPairs = {}
    /\ pc = "idle"
    /\ drain = [deq |-> 0, enq |-> 0]
    /\ aggLog = <<>>
    /\ nestLog = <<>>
    /\ escaped = NoError

Proms == 1 .. Len(prom)

\* new Promise(executor) for an executor making the calls of a body in
\* Bodies, while fewer than max promises exist
New(Bodies, max) ==
    /\ pc = "idle"
    /\ Len(prom) < max
    /\ \E body \in Bodies : Return(Promise(Cur, Executor(body)))
    /\ UNCHANGED <<pc, drain, aggLog>>

\* new Promise(v) for a v that is not a function
NewNotCallable ==
    /\ pc = "idle"
    /\ Return(Promise(Cur, NotAFunction))
    /\ UNCHANGED <<pc, drain, aggLog>>

\* a kept resolve function called with a value of Vals
CallResolve(Vals) ==
    /\ pc = "idle"
    /\ \E k \in hostPairs, v \in Vals : Return(Ok(ResolveFn(Cur, k, v), Undefined))
    /\ UNCHANGED <<pc, drain, aggLog>>

\* a kept reject function called with a value of Vals
CallReject(Vals) ==
    /\ pc = "idle"
    /\ \E k \in hostPairs, v \in Vals : Return(Ok(RejectFn(Cur, k, v), Undefined))
    /\ UNCHANGED <<pc, drain, aggLog>>

\* p.then(onFulfilled, onRejected) for a promise p of Ps and a handler pair of Hs
Then(Ps, Hs, max) ==
    /\ pc = "idle"
    /\ Len(prom) < max
    /\ \E p \in Ps, h \in Hs : Return(then(Cur, PromV(p), h[1], h[2]))
    /\ UNCHANGED <<pc, drain, aggLog>>

\* p.catch(onRejected) for a promise p of Ps and a handler of Hs
Catch(Ps, Hs, max) ==
    /\ pc = "idle"
    /\ Len(prom) < max
    /\ \E p \in Ps, h \in Hs : Return(catch(Cur, PromV(p), h))
    /\ UNCHANGED <<pc, drain, aggLog>>

\* Promise.prototype.then.call(v) for a v that is not a promise
ThenNotPromise ==
    /\ pc = "idle"
    /\ Return(then(Cur, IntV(1), NoHandler, NoHandler))
    /\ UNCHANGED <<pc, drain, aggLog>>

\* Promise.resolve(v) for a value of Vals
Resolve(Vals, max) ==
    /\ pc = "idle"
    /\ Len(prom) < max
    /\ \E v \in Vals : Return(resolve(Cur, v))
    /\ UNCHANGED <<pc, drain, aggLog>>

\* Promise.reject(v) for a value of Vals
Reject(Vals, max) ==
    /\ pc = "idle"
    /\ Len(prom) < max
    /\ \E v \in Vals : Return(reject(Cur, v))
    /\ UNCHANGED <<pc, drain, aggLog>>

\* Promise.try(func) for a func that returns or throws as a call of Calls says
Try(Calls, max) ==
    /\ pc = "idle"
    /\ Len(prom) < max
    /\ \E c \in Calls : Return(try(Cur, c))
    /\ UNCHANGED <<pc, drain, aggLog>>

\* Promise.all(list) for a list of Lists
All(Lists, max) ==
    /\ pc = "idle"
    /\ Len(prom) < max
    /\ \E list \in Lists :
          LET Returned(r) ==
                 /\ Return(r)
                 /\ aggLog' = Append(aggLog, [fn |-> "all", list |-> list, p |-> r.val])
          IN  Returned(all(Cur, list))
    /\ UNCHANGED <<pc, drain>>

\* Promise.race(list) for a list of Lists
Race(Lists, max) ==
    /\ pc = "idle"
    /\ Len(prom) < max
    /\ \E list \in Lists :
          LET Returned(r) ==
                 /\ Return(r)
                 /\ aggLog' = Append(aggLog, [fn |-> "race", list |-> list, p |-> r.val])
          IN  Returned(race(Cur, list))
    /\ UNCHANGED <<pc, drain>>

\* Promise.runQueue() is called: the while loop is entered
RunQueue ==
    /\ pc = "idle"
    /\ pc' = "runQueue"
    /\ drain' = [deq |-> Len(deqLog), enq |-> Len(jobs)]
    /\ escaped' = NoError
    /\ UNCHANGED <<prom, pairs, jobs, queueHead, queueTail, alls, regLog, deqLog,
                   runLog, hostPairs, aggLog, nestLog>>

\* while (runQueueEntry()) {}: one call of runQueueEntry; the loop goes on
\* when it returns true and Promise.runQueue() returns when it returns false
\* (or raises when it raises)
RunQueueEntry ==
    /\ pc = "runQueue"
    /\ LET Returned(r) ==
              /\ Return(r)
              /\ pc' = IF ~r.exc /\ r.val THEN "runQueue" ELSE "idle"
       IN  Returned(runQueueEntry(Cur))
    /\ UNCHANGED <<drain, aggLog>>

-----------------------------------------------------------------------------
(* The general specification: a host that makes any of the public calls,   *)
(* with inputs from small sets, in any order.                              *)

\* then methods of foreign thenables: one that calls resolve and then reject,
\* one that throws
DoubleCall == <<Step("resolve", 1, <<>>), Step("reject", 2, <<>>)>>
ThrowingThen == <<Step("throw", 3, <<>>)>>

HostVals ==
    {IntV(1), GetterThrowsV(3)}
    \cup {PromV(p) : p \in Proms}
    \cup {ThenableV(b) : b \in {DoubleCall, ThrowingThen}}

HostErrs == {IntV(2)}

\* executors: one that keeps resolve and reject, one that throws, one that
\* throws after it has called resolve
HostBodies ==
    {<<Call("keep", Undefined)>>,
     <<Call("throw", IntV(2))>>,
     <<Call("resolve", IntV(1)), Call("throw", IntV(2))>>}

\* handler pairs; a handler may return a promise, the derived one included,
\* or call then() on promise 1
HostHandlers ==
    {<<NoHandler, NoHandler>>,
     <<Returns(IntV(1)), Returns(IntV(1))>>,
     <<Throws(IntV(2)), Throws(IntV(2))>>,
     <<Registers(1, IntV(1)), NoHandler>>}
    \cup {<<Returns(PromV(q)), NoHandler>> : q \in 1 .. Len(prom) + 1}

HostLists == {<<>>} \cup {<<v>> : v \in {IntV(1)} \cup {PromV(p) : p \in Proms}}

HostFuncs == {Call("resolve", IntV(1)), Call("throw", IntV(2))}

Next ==
    \/ New(HostBodies, MaxProm)
    \/ NewNotCallable
    \/ CallResolve(HostVals)
    \/ CallReject(HostErrs)
    \/ Then(Proms, HostHandlers, MaxProm)
    \/ Catch(Proms, {Returns(IntV(1)), Throws(IntV(2))}, MaxProm)
    \/ ThenNotPromise
    \/ Resolve(HostVals, MaxProm)
    \/ Reject(HostErrs, MaxProm)
    \/ Try(HostFuncs, MaxProm)
    \/ All(HostLists, MaxProm)
    \/ Race(HostLists, MaxProm)
    \/ RunQueue
    \/ RunQueueEntry

Spec == Init /\ [][Next]_vars

-----------------------------------------------------------------------------
(* Notions the properties are stated with. *)

Range(s) == {s[i] : i \in 1 .. Len(s)}
Jobs == 1 .. Len(jobs)
Dequeued == Range(deqLog)

\* the promise a job's resolve/reject pair settles
JobTarget(j) == pairs[jobs[j].resolve].p
IsThenableJob(j) == jobs[j].then # "undefined"
IsReactionJob(j) == jobs[j].then = "undefined"

\* the jobs in the queue, from job 'id' on, following at most 'fuel' links
RECURSIVE QueueFrom(_, _)
QueueFrom(id, fuel) ==
    IF id = 0 \/ fuel = 0 THEN <<>>
    ELSE <<id>> \o QueueFrom(jobs[id].next, fuel - 1)

Queued == QueueFrom(queueHead, Len(jobs) + 1)

Quiescent == pc = "idle" /\ queueHead = 0

-----------------------------------------------------------------------------
(* C1.  Single settlement: a promise's state and value are assigned at     *)
(* most once, it is pending exactly as long as they were never assigned,   *)
(* and no step, whichever resolve or reject function it calls, changes a   *)
(* promise that is no longer pending.                                      *)

C1_WrittenOnce ==
    \A p \in Proms :
        /\ prom[p].writes <= 1
        /\ prom[p].writes = 0 <=> prom[p].state = Pending

C1_SingleSettlement ==
    /\ []C1_WrittenOnce
    /\ [][\A p \in Proms : prom[p].state # Pending => prom'[p] = prom[p]]_vars

\* A promise settled by the fresh pair of an assimilation job whose then
\* method called resolve and then reject, while the host still holds the
\* promise's original pair.
C1_Witness ==
    \E j \in Dequeued :
        /\ jobs[j].thenable = ThenableV(DoubleCall)
        /\ prom[JobTarget(j)].state = Fulfilled
        /\ \E k \in hostPairs : pairs[k].p = JobTarget(j) /\ pairs[k].alreadyResolved

-----------------------------------------------------------------------------
(* C3.  The job queue is strict FIFO: the jobs dequeued so far are the     *)
(* first jobs enqueued, in the order they were enqueued and each once, and *)
(* the queue holds all the others, in the order they were enqueued.        *)

C3_QueueFifo ==
    /\ deqLog = [i \in 1 .. Len(deqLog) |-> i]
    /\ Len(deqLog) <= Len(jobs)
    /\ Queued = [i \in 1 .. Len(jobs) - Len(deqLog) |-> Len(deqLog) + i]
    /\ queueTail = IF queueHead = 0 THEN 0 ELSE Len(jobs)

\* A drain is running; it has dequeued at least two jobs, one of them
\* enqueued during this same drain, and another job waits in the queue.
C3_Witness ==
    /\ pc = "runQueue"
    /\ Len(deqLog) >= drain.deq + 2
    /\ Len(deqLog) > drain.enq
    /\ queueHead # 0

-----------------------------------------------------------------------------
(* C2.  Thenable assimilation: when a pending promise T is resolved with a *)
(* value x that has a callable then, T stays pending at least until the    *)
(* assimilation job has run; and when x is a promise, whenever the job has *)
(* run, x is settled and the queue has been drained, T has the state and   *)
(* the value of x.                                                         *)

C2_Assimilation ==
    \A j \in Jobs :
        IsThenableJob(j) =>
            LET T == JobTarget(j)
                x == jobs[j].thenable.n
            IN  /\ j \notin Dequeued => prom[T].state = Pending
                /\ (/\ jobs[j].thenable.k = "promise"
                    /\ Quiescent /\ j \in Dequeued /\ prom[x].state # Pending) =>
                        /\ prom[T].state = prom[x].state
                        /\ prom[T].value = prom[x].value

\* T took over the fulfilment of x, which was still pending when T was
\* resolved with it: the reaction that settled T was enqueued after the
\* assimilation job.
C2_Witness ==
    \E j \in Dequeued, r \in Dequeued :
        /\ IsThenableJob(j) /\ jobs[j].thenable.k = "promise"
        /\ IsReactionJob(r) /\ r > j + 1
        /\ jobs[r].handler = ResolveOf(jobs[j].resolve)
        /\ prom[JobTarget(j)].state = Fulfilled
        /\ Quiescent

-----------------------------------------------------------------------------
(* C5.  Draining is exhaustive: when Promise.runQueue() returns, the queue *)
(* is empty and every job ever enqueued has been dequeued and run, the     *)
(* jobs enqueued during this call included.                                *)

C5_DrainExhaustive ==
    [][(pc = "runQueue" /\ pc' = "idle") =>
            (queueHead' = 0 /\ Len(deqLog') = Len(jobs'))]_vars

\* The latest drain has returned; it ran a reaction job enqueued before it
\* began whose handler returned a promise, and the assimilation job and the
\* promise's reaction that this gave rise to, so that the derived promise
\* is settled.
C5_Witness ==
    /\ Quiescent
    /\ \E r \in Dequeued, j \in Dequeued :
          /\ r <= drain.enq /\ deqLog[Len(deqLog)] > j /\ j > drain.enq
          /\ IsReactionJob(r) /\ jobs[r].handler.h = "return"
          /\ jobs[r].handler.v.k = "promise"
          /\ IsThenableJob(j) /\ JobTarget(j) = JobTarget(r)
          /\ prom[JobTarget(j)].state = Fulfilled

-----------------------------------------------------------------------------
(* Error paths: the host of Spec without the static calls resolve(),       *)
(* reject(), all() and race(): constructors with throwing executors,       *)
(* try(), handlers that throw or return promises, their own derived        *)
(* promise included, candidates whose then getter or then method throws,   *)
(* and the two usage errors.                                               *)
NextErrors ==
    \/ New(HostBodies, MaxProm)
    \/ NewNotCallable
    \/ CallResolve(HostVals)
    \/ CallReject(HostErrs)
    \/ Then(Proms, HostHandlers, MaxProm)
    \/ Catch(Proms, {Returns(IntV(1)), Throws(IntV(2))}, MaxProm)
    \/ ThenNotPromise
    \/ Try(HostFuncs, MaxProm)
    \/ RunQueue
    \/ RunQueueEntry

SpecErrors == Init /\ [][NextErrors]_vars

-----------------------------------------------------------------------------
(* C7.  Self-resolution rejects: in every reachable state, calling a live  *)
(* resolve function of a pending promise p with p itself rejects p with    *)
(* the TypeError at once and enqueues no assimilation job; a handler that  *)
(* returned its own derived promise has left it rejected with the          *)
(* TypeError; and no assimilation job ever has its own target as thenable. *)

C7_SelfResolution ==
    /\ \A k \in 1 .. Len(pairs) :
          LET p == pairs[k].p
              s == ResolveFn(Cur, k, PromV(p))
          IN  (~pairs[k].alreadyResolved /\ prom[p].state = Pending) =>
                  /\ s.prom[p].state = Rejected
                  /\ s.prom[p].value = TypeErrorV
                  /\ \A j \in Len(jobs) + 1 .. Len(s.jobs) : s.jobs[j].then = "undefined"
    /\ \A j \in Dequeued :
          (IsReactionJob(j) /\ jobs[j].handler = Returns(PromV(JobTarget(j)))) =>
              /\ prom[JobTarget(j)].state = Rejected
              /\ prom[JobTarget(j)].value = TypeErrorV
    /\ \A j \in Jobs : IsThenableJob(j) => jobs[j].thenable # PromV(JobTarget(j))

\* A handler returned the promise derived by its own then() call, which is
\* now rejected with the TypeError.
C7_Witness ==
    \E j \in Dequeued :
        /\ IsReactionJob(j) /\ jobs[j].handler = Returns(PromV(JobTarget(j)))
        /\ prom[JobTarget(j)].state = Rejected
        /\ prom[JobTarget(j)].value = TypeErrorV

-----------------------------------------------------------------------------
(* C8.  Errors never escape: no public call raises anything but the two    *)
(* usage errors; a throwing handler leaves its derived promise rejected    *)
(* with what it threw, a throwing then method leaves the target rejected   *)
(* with what it threw; and in every reachable state a throwing executor    *)
(* gives a promise rejected with what it threw, and resolving a pending    *)
(* promise with an object whose 'then' getter throws rejects it with what  *)
(* the getter threw.                                                       *)

-----------------------------------------------------------------------------
(* Reactions: one promise made by the host and promises derived from it    *)
(* and from each other by then(), with and without handlers.               *)

\* the largest number of then() calls
MaxReact == 3

ReactHandlers ==
    {<<NoHandler, NoHandler>>,
     <<Returns(IntV(3)), NoHandler>>,
     <<NoHandler, Returns(IntV(3))>>}

NextReact ==
    \/ New({<<Call("keep", Undefined)>>}, 1)
    \/ Then(Proms, ReactHandlers, MaxReact + 1)
    \/ CallResolve({IntV(1)})
    \/ CallReject({IntV(2)})
    \/ RunQueue
    \/ RunQueueEntry

SpecReact == Init /\ [][NextReact]_vars

\* the then() call that made the derived promise d, and its source
IsDerived(d) == \E i \in 1 .. Len(regLog) : regLog[i][2] = d
RegIndex(d) == CHOOSE i \in 1 .. Len(regLog) : regLog[i][2] = d
Source(d) == regLog[RegIndex(d)][1]

(* C4. The reactions registered on one promise run in the order in which   *)
(* they were registered, whether they were registered before or after the  *)
(* promise settled; and once the queue has been drained, every reaction    *)
(* registered on a settled promise has run.                                *)
C4_ReactionOrder ==
    /\ \A a, b \in 1 .. Len(deqLog) :
          LET ja == deqLog[a]
              jb == deqLog[b]
          IN  (/\ a < b
               /\ IsReactionJob(ja) /\ IsReactionJob(jb)
               /\ IsDerived(JobTarget(ja)) /\ IsDerived(JobTarget(jb))
               /\ Source(JobTarget(ja)) = Source(JobTarget(jb)))
              => RegIndex(JobTarget(ja)) < RegIndex(JobTarget(jb))
    /\ Quiescent =>
          \A i \in 1 .. Len(regLog) :
             prom[regLog[i][1]].state # Pending
             => \E j \in Dequeued : IsReactionJob(j) /\ JobTarget(j) = regLog[i][2]

\* three reactions registered on one promise, two while it was pending and
\* one after it settled, have all run
C4_Witness ==
    \E s \in Proms :
       \E a, b, c \in 1 .. Len(regLog) :
          /\ a < b /\ b < c
          /\ regLog[a][1] = s /\ regLog[b][1] = s /\ regLog[c][1] = s
          /\ regLog[a][3] = Pending /\ regLog[b][3] = Pending
          /\ regLog[c][3] # Pending
          /\ \A i \in {a, b, c} :
                \E j \in Dequeued : IsReactionJob(j) /\ JobTarget(j) = regLog[i][2]

(* C9. A reaction whose handler is missing passes the settlement of its    *)
(* source on: the derived promise is fulfilled with the same value when    *)
(* the source is fulfilled, rejected with the same error when the source   *)
(* is rejected, as soon as the reaction has run, and it has run once the   *)
(* queue has been drained.                                                 *)
C9_Defaults ==
    /\ \A j \in Dequeued :
          (IsReactionJob(j) /\ jobs[j].handler \in {Identity, Thrower})
          => LET d == JobTarget(j)
                 s == Source(d)
             IN  /\ prom[d].state = prom[s].state
                 /\ prom[d].value = prom[s].value
                 /\ prom[s].state = IF jobs[j].handler = Identity
                                    THEN Fulfilled ELSE Rejected
    /\ Quiescent =>
          \A i \in 1 .. Len(regLog) :
             prom[regLog[i][1]].state # Pending
             => \E j \in Dequeued : IsReactionJob(j) /\ JobTarget(j) = regLog[i][2]

\* a rejection has passed through a reaction without handlers, was turned
\* into a value by an onRejected handler, and that value has passed through
\* another reaction without handlers
C9_Witness ==
    \E j1, j2, j3 \in Dequeued :
       /\ jobs[j1].handler = Thrower
       /\ jobs[j2].handler = Returns(IntV(3))
       /\ jobs[j3].handler = Identity
       /\ Source(JobTarget(j2)) = JobTarget(j1)
       /\ Source(JobTarget(j3)) = JobTarget(j2)
       /\ regLog[RegIndex(JobTarget(j1))][3] = Rejected
       /\ regLog[RegIndex(JobTarget(j3))][3] = Fulfilled
       /\ prom[JobTarget(j1)].state = Rejected
       /\ prom[JobTarget(j3)].state = Fulfilled
       /\ prom[JobTarget(j3)].value = IntV(3)

-----------------------------------------------------------------------------
(* Nested thenables: promises made by the host and resolved with a plain   *)
(* value, with each other, or with a foreign thenable whose then method    *)
(* resolves with a thenable of the same kind, down to a plain value.       *)

\* the largest number of promises and the deepest nest
MaxChain == 2
MaxDepth == 2

\* the then method of a nest of d thenables: the innermost one calls
\* resolve(1), every other one calls resolve(the next thenable)
RECURSIVE Nest(_)
Nest(d) == IF d <= 1 THEN <<Step("resolve", 1, <<>>)>>
           ELSE <<Step("resolve", 0, Nest(d - 1))>>

ChainVals ==
    {IntV(1)} \cup {PromV(p) : p \in Proms}
    \cup {ThenableV(Nest(d)) : d \in 1 .. MaxDepth}

NextChain ==
    \/ New({<<Call("keep", Undefined)>>}, MaxChain)
    \/ CallResolve(ChainVals)
    \/ RunQueue
    \/ RunQueueEntry

SpecChain == Init /\ [][NextChain]_vars

\* the number of layers of a thenable of ChainVals
NestDepth(v) == CHOOSE d \in 1 .. MaxDepth + 1 : v = ThenableV(Nest(d))
IsNest(v) == \E d \in 1 .. MaxDepth + 1 : v = ThenableV(Nest(d))

\* the assimilation jobs made for promise t, and the layers of the thenable
\* that t was resolved with (that of the first of these jobs)
NestJobs(t) == {j \in Jobs : IsThenableJob(j) /\ JobTarget(j) = t}
FirstNestJob(t) == CHOOSE j \in NestJobs(t) : \A i \in NestJobs(t) : j <= i
Resolved(t) == NestJobs(t) # {} /\ IsNest(jobs[FirstNestJob(t)].thenable)
Layers(t) == NestDepth(jobs[FirstNestJob(t)].thenable)

\* the position of job j in the order of the dequeues
Pos(j) == CHOOSE i \in 1 .. Len(deqLog) : deqLog[i] = j

(* C6. Unwrapping costs one job per layer: a promise resolved with a nest  *)
(* of N thenables is settled exactly when N assimilation jobs have run for *)
(* it, one for each layer, and it is then fulfilled with the value of the  *)
(* innermost layer; each of these jobs but the first is enqueued by the    *)
(* one before it.  (All N jobs can run within one call of                  *)
(* Promise.runQueue(): see C6_NeedsNDrains.)                               *)
C6_JobPerLayer ==
    \A t \in Proms :
       Resolved(t) =>
          /\ Cardinality(NestJobs(t)) <= Layers(t)
          /\ prom[t].state # Pending
             <=> Cardinality(NestJobs(t) \cap Dequeued) = Layers(t)
          /\ prom[t].state # Pending
             => prom[t].state = Fulfilled /\ prom[t].value = IntV(1)
          /\ \A j \in NestJobs(t) :
                j # FirstNestJob(t)
                => \E i \in NestJobs(t) \cap Dequeued :
                      /\ i < j
                      /\ NestDepth(jobs[i].thenable) = NestDepth(jobs[j].thenable) + 1

\* a promise resolved with a nest of MaxDepth thenables is settled, and all
\* of its assimilation jobs ran within the latest call of Promise.runQueue()
C6_Witness ==
    \E t \in Proms :
       /\ Resolved(t)
       /\ Layers(t) = MaxDepth
       /\ prom[t].state = Fulfilled
       /\ \A j \in NestJobs(t) : j \in Dequeued /\ Pos(j) > drain.deq

(* C6 as stated: a promise resolved with a nest of N >= 2 thenables is not *)
(* settled by one call of Promise.runQueue(): when it is settled, its      *)
(* assimilation jobs did not all run within the latest call.               *)
C6_NeedsNDrains ==
    \A t \in Proms :
       (Resolved(t) /\ Layers(t) >= 2 /\ prom[t].state # Pending)
       => \E j \in NestJobs(t) : Pos(j) <= drain.deq

-----------------------------------------------------------------------------
(* Promise.all(): promises made by the host, lists of them and of plain    *)
(* values, and the inputs settled in any order.                            *)

\* the longest list, which is also the number of promises made by the host
MaxList == 2

AllVals == {IntV(1)} \cup {PromV(p) : p \in Proms}

AllLists ==
    UNION {[1 .. n -> AllVals] : n \in 0 .. MaxList}

NextAll ==
    \/ New({<<Call("keep", Undefined)>>}, MaxList)
    \/ All(AllLists, MaxList + 1)
    \/ CallResolve({IntV(2), IntV(3)})
    \/ CallReject({IntV(4)})
    \/ RunQueue
    \/ RunQueueEntry

SpecAll == Init /\ [][NextAll]_vars

\* the Promise.all() calls made
AllCalls == {i \in 1 .. Len(aggLog) : aggLog[i].fn = "all"}

\* what all() waits for in an input: a promise is waited for itself, any
\* other value is fulfilled at once
InputFulfilled(v) == v.k = "promise" => prom[v.n].state = Fulfilled
InputResult(v) == IF v.k = "promise" THEN prom[v.n].value ELSE v

(* C10. The promise returned by all(list) is fulfilled only when every    *)
(* input is fulfilled, and then with an array as long as the list whose   *)
(* element i is the result of input i, in whichever order the inputs      *)
(* settled; once every input is fulfilled and the queue has been drained,  *)
(* it is fulfilled.                                                        *)
C10_AllOrder ==
    \A i \in AllCalls :
       LET list == aggLog[i].list
           p    == aggLog[i].p
       IN  /\ prom[p].state = Fulfilled
              => /\ \A n \in 1 .. Len(list) : InputFulfilled(list[n])
                 /\ prom[p].value = ArrV([n \in 1 .. Len(list) |-> InputResult(list[n])])
           /\ (Quiescent /\ \A n \in 1 .. Len(list) : InputFulfilled(list[n]))
              => prom[p].state = Fulfilled

\* all([p, q]) is fulfilled with the results of p and q, which differ, and
\* the element function of q ran before that of p
C10_Witness ==
    \E i \in AllCalls :
       LET list == aggLog[i].list
       IN  /\ Len(list) = 2
           /\ list[1].k = "promise" /\ list[2].k = "promise"
           /\ prom[aggLog[i].p].state = Fulfilled
           /\ prom[list[1].n].value # prom[list[2].n].value
           /\ \E a, b \in 1 .. Len(deqLog) :
                 /\ a < b
                 /\ IsReactionJob(deqLog[a]) /\ IsReactionJob(deqLog[b])
                 /\ jobs[deqLog[a]].handler = AllElement(i, 1)
                 /\ jobs[deqLog[b]].handler = AllElement(i, 0)

-----------------------------------------------------------------------------
(* all() over promises settled before and after the call: promises made   *)
(* by the host, all() over lists of them, and the inputs fulfilled and     *)
(* rejected in any order, before and after the call.                       *)

\* the longest list, which is also the number of promises made by the host
MaxAgg == 2

AggLists == UNION {[1 .. n -> {PromV(p) : p \in Proms}] : n \in 0 .. MaxAgg}

NextAgg ==
    \/ New({<<Call("keep", Undefined)>>}, MaxAgg)
    \/ All(AggLists, MaxAgg + 1)
    \/ CallResolve({IntV(2)})
    \/ CallReject({IntV(4), IntV(5)})
    \/ RunQueue
    \/ RunQueueEntry

SpecAgg == Init /\ [][NextAgg]_vars

\* In an all() or race() call over promises that returned promise p, the
\* promise derived by the then() on input n is p + n.  The input was
\* settled before the call when that then() found it settled.
Early(i, n) == regLog[RegIndex(aggLog[i].p + n)][3] # Pending

\* The reaction job of input n of call i is enqueued no later than that of
\* input m: the jobs of the inputs settled before the call are enqueued
\* during the call, in list order; the others when the input settles.
JobBefore(i, n, m) ==
    LET list == aggLog[i].list
    IN  \/ Early(i, n) /\ (Early(i, m) => n <= m)
        \/ /\ ~Early(i, n) /\ ~Early(i, m)
           /\ prom[list[n].n].seq <= prom[list[m].n].seq

\* Input n of call i settled no later than input m.
SettledBefore(i, n, m) ==
    prom[aggLog[i].list[n].n].seq <= prom[aggLog[i].list[m].n].seq

\* the inputs of call i that are rejected, and those that are settled
RejectedInputs(i) ==
    {n \in 1 .. Len(aggLog[i].list) : prom[aggLog[i].list[n].n].state = Rejected}
SettledInputs(i) ==
    {n \in 1 .. Len(aggLog[i].list) : prom[aggLog[i].list[n].n].state # Pending}

(* C11. The promise returned by all(list) is rejected only when an input   *)
(* is rejected, and then with the error of the rejected input whose        *)
(* reaction job is first in the queue: the inputs already settled at the   *)
(* call come first, in list order, then the others in the order in which   *)
(* they settle.  Later settlements do not change it, and once an input is  *)
(* rejected and the queue has been drained the promise is rejected, inputs *)
(* that are still pending notwithstanding.                                 *)
C11_AllRejection ==
    \A i \in AllCalls :
       LET p   == aggLog[i].p
           rej == RejectedInputs(i)
       IN  /\ prom[p].state = Rejected
              => /\ rej # {}
                 /\ \E n \in rej :
                       /\ \A m \in rej : JobBefore(i, n, m)
                       /\ prom[p].value = prom[aggLog[i].list[n].n].value
           /\ (Quiescent /\ rej # {}) => prom[p].state = Rejected

\* all([p, q]) was called when q and then p had been rejected, with
\* different errors, and is rejected with the error of p
C11_Witness ==
    \E i \in AllCalls :
       LET list == aggLog[i].list
       IN  /\ Len(list) = 2
           /\ RejectedInputs(i) = {1, 2}
           /\ Early(i, 1) /\ Early(i, 2)
           /\ prom[list[2].n].seq < prom[list[1].n].seq
           /\ prom[list[1].n].value # prom[list[2].n].value
           /\ prom[aggLog[i].p].state = Rejected
           /\ prom[aggLog[i].p].value = prom[list[1].n].value

(* C11 as stated: the promise returned by all(list) is rejected with the   *)
(* error of the input that was rejected first, also when the inputs were   *)
(* settled before the call.                                                *)
C11_FirstSettled ==
    \A i \in AllCalls :
       LET rej == RejectedInputs(i)
       IN  prom[aggLog[i].p].state = Rejected
           => \E n \in rej :
                 /\ \A m \in rej : SettledBefore(i, n, m)
                 /\ prom[aggLog[i].p].value = prom[aggLog[i].list[n].n].value

-----------------------------------------------------------------------------
(* C12. all([]) returns a promise that is fulfilled with an empty array:   *)
(* it is so in every state from the return of the call on, and the call    *)
(* leaves the job queue as it was: no job is enqueued, none is dequeued.   *)
C12_EmptyAll ==
    /\ [](\A i \in AllCalls :
             aggLog[i].list = <<>>
             => /\ prom[aggLog[i].p].state = Fulfilled
                /\ prom[aggLog[i].p].value = ArrV(<<>>))
    /\ [][(/\ Len(aggLog') = Len(aggLog) + 1
           /\ aggLog'[Len(aggLog')].fn = "all"
           /\ aggLog'[Len(aggLog')].list = <<>>)
          => (/\ jobs' = jobs /\ deqLog' = deqLog
              /\ queueHead' = queueHead /\ queueTail' = queueTail)]_vars

\* all([]) has returned a fulfilled promise and no job was ever enqueued
\* or run
C12_Witness ==
    \E i \in AllCalls :
       /\ aggLog[i].list = <<>>
       /\ prom[aggLog[i].p].state = Fulfilled
       /\ jobs = <<>> /\ deqLog = <<>>

-----------------------------------------------------------------------------
(* race() over promises settled before and after the call.                 *)

NextRace ==
    \/ New({<<Call("keep", Undefined)>>}, MaxAgg)
    \/ Race(AggLists, MaxAgg + 1)
    \/ CallResolve({IntV(2), IntV(3)})
    \/ CallReject({IntV(4)})
    \/ RunQueue
    \/ RunQueueEntry

SpecRace == Init /\ [][NextRace]_vars

\* the race() calls made
RaceCalls == {i \in 1 .. Len(aggLog) : aggLog[i].fn = "race"}

(* C13. The promise returned by race(list) is settled only when an input   *)
(* is settled, and then with the state and the value of the settled input  *)
(* whose reaction job is first in the queue: the inputs already settled at *)
(* the call come first, in list order, then the others in the order in     *)
(* which they settle.  Later settlements do not change it, and once an     *)
(* input is settled and the queue has been drained the promise is settled, *)
(* inputs that never settle notwithstanding.                               *)
C13_RaceFirstJob ==
    \A i \in RaceCalls :
       LET p   == aggLog[i].p
           set == SettledInputs(i)
       IN  /\ prom[p].state # Pending
              => /\ set # {}
                 /\ \E n \in set :
                       /\ \A m \in set : JobBefore(i, n, m)
                       /\ prom[p].state = prom[aggLog[i].list[n].n].state
                       /\ prom[p].value = prom[aggLog[i].list[n].n].value
           /\ (Quiescent /\ set # {}) => prom[p].state # Pending

\* race([p, q]) was called when q had been fulfilled and then p rejected,
\* and is rejected with the error of p
C13_Witness ==
    \E i \in RaceCalls :
       LET list == aggLog[i].list
       IN  /\ Len(list) = 2
           /\ Early(i, 1) /\ Early(i, 2)
           /\ prom[list[2].n].state = Fulfilled
           /\ prom[list[1].n].state = Rejected
           /\ prom[list[2].n].seq < prom[list[1].n].seq
           /\ prom[aggLog[i].p].state = Rejected
           /\ prom[aggLog[i].p].value = prom[list[1].n].value

(* C13 as stated: the promise returned by race(list) is settled like the   *)
(* input that settled first, also when the inputs were settled before the  *)
(* call.                                                                   *)
C13_FirstSettled ==
    \A i \in RaceCalls :
       LET set == SettledInputs(i)
       IN  prom[aggLog[i].p].state # Pending
           => \E n \in set :
                 /\ \A m \in set : SettledBefore(i, n, m)
                 /\ prom[aggLog[i].p].state = prom[aggLog[i].list[n].n].state
                 /\ prom[aggLog[i].p].value = prom[aggLog[i].list[n].n].value

-----------------------------------------------------------------------------
\* the pairs made for promise p, and those whose latch is not set
PairsOf(p) == {k \in 1 .. Len(pairs) : pairs[k].p = p}
LivePairs(p) == {k \in PairsOf(p) : ~pairs[k].alreadyResolved}

(* C14. Live pair: every promise has at most one pair whose latch is not   *)
(* set, and it is the one made last; every pair but the first was made by  *)
(* resolve() for an assimilation job, which carries it; and a call of the  *)
(* resolve or the reject function of a pair whose latch is set changes     *)
(* nothing, so that a pending promise resolved with a thenable can only be *)
(* settled through the pair of the job.                                    *)
C14_LivePair ==
    /\ \A p \in Proms :
          /\ Cardinality(LivePairs(p)) <= 1
          /\ \A k1, k2 \in PairsOf(p) : k1 < k2 => pairs[k1].alreadyResolved
          /\ \A k \in PairsOf(p) :
                (\E k0 \in PairsOf(p) : k0 < k)
                => \E j \in Jobs : IsThenableJob(j) /\ jobs[j].resolve = k
                                   /\ jobs[j].reject = k
    /\ \A k \in 1 .. Len(pairs) :
          pairs[k].alreadyResolved
          => /\ \A v \in HostVals : ResolveFn(Cur, k, v) = Cur
             /\ \A e \in HostErrs : RejectFn(Cur, k, e) = Cur

\* a promise is pending after resolve(thenable): the host still holds its
\* first pair, whose latch is set, and the pair whose latch is not set is
\* that of an assimilation job that has not run
C14_Witness ==
    \E p \in Proms, k1 \in hostPairs :
       /\ prom[p].state = Pending
       /\ k1 \in PairsOf(p) /\ pairs[k1].alreadyResolved
       /\ \E k2 \in LivePairs(p), j \in Jobs :
             /\ k1 < k2
             /\ IsThenableJob(j) /\ jobs[j].resolve = k2 /\ j \notin Dequeued

-----------------------------------------------------------------------------
(* Misbehaving thenables: one promise made by the host and resolved with a *)
(* foreign thenable whose then method makes any short sequence of calls of *)
(* the resolve and reject functions it was handed, and may throw.          *)

\* the largest number of steps of a then method
MaxSteps == 2

ThenSteps ==
    {Step("resolve", 1, <<>>), Step("resolve", 4, <<>>),
     Step("reject", 2, <<>>), Step("throw", 3, <<>>),
     Step("resolve", 0, Nest(1))}

ThenBodies == UNION {[1 .. n -> ThenSteps] : n \in 0 .. MaxSteps}

NextThenable ==
    \/ New({<<Call("keep", Undefined)>>}, 1)
    \/ CallResolve({ThenableV(b) : b \in ThenBodies})
    \/ RunQueue
    \/ RunQueueEntry

SpecThenable == Init /\ [][NextThenable]_vars

(* C15. First call wins: when the then method of a thenable has been run   *)
(* by its assimilation job, the target is as the first step of the method  *)
(* left it: rejected with the error of a first reject call or of a throw   *)
(* before any call, fulfilled with the value of a first resolve call, or   *)
(* waiting for the thenable a first resolve call passed; pending if the    *)
(* method made no call.  Every later call and a later throw change         *)
(* nothing, and the target is written at most once.                        *)
C15_FirstCallWins ==
    \A j \in Dequeued :
       (IsThenableJob(j) /\ jobs[j].thenable.k = "thenable")
       => LET b == jobs[j].thenable.a
              T == JobTarget(j)
          IN  /\ prom[T].writes <= 1
              /\ b = <<>> => prom[T].state = Pending
              /\ (b # <<>> /\ Head(b).k \in {"reject", "throw"})
                 => /\ prom[T].state = Rejected
                    /\ prom[T].value = StepArg(Head(b))
              /\ (b # <<>> /\ Head(b).k = "resolve" /\ Head(b).a = <<>>)
                 => /\ prom[T].state = Fulfilled
                    /\ prom[T].value = StepArg(Head(b))
              /\ (b # <<>> /\ Head(b).k = "resolve" /\ Head(b).a # <<>>)
                 => /\ prom[T].state \in {Pending, Fulfilled}
                    /\ prom[T].state = Fulfilled <=> j + 1 \in Dequeued
                    /\ prom[T].state = Fulfilled => prom[T].value = IntV(1)
                    /\ jobs[j + 1].thenable = StepArg(Head(b))

\* a then method has called resolve with a thenable and then reject, and
\* the target is fulfilled through the thenable
C15_Witness ==
    \E j \in Dequeued :
       /\ IsThenableJob(j)
       /\ jobs[j].thenable = ThenableV(<<Step("resolve", 0, Nest(1)),
                                         Step("reject", 2, <<>>)>>)
       /\ prom[JobTarget(j)].state = Fulfilled
       /\ prom[JobTarget(j)].value = IntV(1)

-----------------------------------------------------------------------------
\* the then() calls made on promise p, in call order, and the reaction jobs
\* made for the promise derived by then() call i
RegsOf(p) == SelectSeq(regLog, LAMBDA r : r[1] = p)
JobsOfReg(i) == {j \in Jobs : IsReactionJob(j) /\ JobTarget(j) = regLog[i][2]}

\* Settling promise p of state Cur with doFulfill or doReject, which gives
\* state s, has discarded both lists and enqueued one job for each record
\* of 'reactions', in order, with value v.
DrainedInto(s, p, reactions, v) ==
    /\ s.prom[p].fulfillReactions = <<>> /\ s.prom[p].rejectReactions = <<>>
    /\ Len(s.jobs) = Len(jobs) + Len(reactions)
    /\ \A n \in 1 .. Len(reactions) :
          LET job == s.jobs[Len(jobs) + n]
          IN  /\ job.handler = reactions[n].handler
              /\ job.resolve = reactions[n].resolve
              /\ job.reject = reactions[n].reject
              /\ job.value = v
              /\ job.then = "undefined"
    /\ \A j \in Jobs : s.jobs[j].handler = jobs[j].handler
                       /\ s.jobs[j].value = jobs[j].value

(* C16. Reaction lists: a settled promise holds no reaction records; a     *)
(* pending one holds, in both lists, one record for each then() call made  *)
(* on it, in call order, and no job exists for them yet; then() on a       *)
(* pending promise appends one record to both lists and enqueues nothing;  *)
(* doFulfill and doReject on a pending promise discard both lists and      *)
(* enqueue one job for each record of the list of their branch, in order,  *)
(* with the value; so that every then() call has at most one reaction job, *)
(* and has one exactly when its source is settled.                         *)
C16_ReactionLists ==
    /\ \A p \in Proms :
          /\ prom[p].state # Pending
             => prom[p].fulfillReactions = <<>> /\ prom[p].rejectReactions = <<>>
          /\ prom[p].state = Pending
             => /\ Len(prom[p].fulfillReactions) = Len(RegsOf(p))
                /\ Len(prom[p].rejectReactions) = Len(RegsOf(p))
                /\ \A n \in 1 .. Len(RegsOf(p)) :
                      /\ pairs[prom[p].fulfillReactions[n].resolve].p = RegsOf(p)[n][2]
                      /\ pairs[prom[p].rejectReactions[n].resolve].p = RegsOf(p)[n][2]
                /\ DrainedInto(doFulfill(Cur, p, IntV(1)), p,
                               prom[p].fulfillReactions, IntV(1))
                /\ DrainedInto(doReject(Cur, p, IntV(2)), p,
                               prom[p].rejectReactions, IntV(2))
                /\ \A h \in ReactHandlers :
                      LET r == then(Cur, PromV(p), h[1], h[2])
                      IN  /\ r.st.jobs = jobs
                          /\ Len(r.st.prom[p].fulfillReactions)
                                = Len(prom[p].fulfillReactions) + 1
                          /\ Len(r.st.prom[p].rejectReactions)
                                = Len(prom[p].rejectReactions) + 1
    /\ \A i \in 1 .. Len(regLog) :
          LET src == prom[regLog[i][1]]
          IN  /\ Cardinality(JobsOfReg(i)) = IF src.state = Pending THEN 0 ELSE 1
              /\ \A j \in JobsOfReg(i) : jobs[j].value = src.value
    /\ \A i1, i2 \in 1 .. Len(regLog) :
          (/\ i1 < i2 /\ regLog[i1][1] = regLog[i2][1]
           /\ prom[regLog[i1][1]].state # Pending)
          => \A j1 \in JobsOfReg(i1), j2 \in JobsOfReg(i2) : j1 < j2

\* a promise with two then() calls made while it was pending, one with an
\* onFulfilled and one with an onRejected handler, has been rejected: the
\* jobs are those of the rejection branch, in call order
C16_Witness ==
    \E i1, i2 \in 1 .. Len(regLog) :
       /\ i1 < i2 /\ regLog[i1][1] = regLog[i2][1]
       /\ regLog[i1][3] = Pending /\ regLog[i2][3] = Pending
       /\ prom[regLog[i1][1]].state = Rejected
       /\ \E j1 \in JobsOfReg(i1), j2 \in JobsOfReg(i2) :
             /\ j1 < j2
             /\ jobs[j1].handler = Thrower
             /\ jobs[j2].handler = Returns(IntV(3))

-----------------------------------------------------------------------------
(* C17. Nothing runs outside a drain: a step made while the host is not    *)
(* inside Promise.runQueue() (a call of the constructor, of a resolve or   *)
(* reject function, of then(), catch(), Promise.resolve/reject/try, all()  *)
(* or race()) invokes no handler and no then method, dequeues no job and   *)
(* changes the state of no promise derived by then(); a promise that       *)
(* then() derives in such a step is pending when the call returns, and if  *)
(* the source was settled a job with the value of the source has been      *)
(* enqueued for it.                                                        *)
C17_OnlyInDrain ==
    [][pc = "idle"
       => /\ runLog' = runLog
          /\ deqLog' = deqLog
          /\ \A i \in 1 .. Len(regLog') :
                LET d == regLog'[i][2]
                IN  /\ i <= Len(regLog) => prom'[d].state = prom[d].state
                    /\ i > Len(regLog)
                       => /\ prom'[d].state = Pending
                          /\ regLog'[i][3] # Pending
                             => \E j \in Len(jobs) + 1 .. Len(jobs') :
                                   /\ pairs'[jobs'[j].resolve].p = d
                                   /\ jobs'[j].then = "undefined"
                                   /\ jobs'[j].value = prom'[regLog'[i][1]].value]_vars

\* then() with a handler was called on a settled promise outside a drain:
\* the derived promise is pending and its job waits in the queue
C17_Witness ==
    \E i \in 1 .. Len(regLog) :
       /\ pc = "idle"
       /\ regLog[i][3] # Pending
       /\ prom[regLog[i][2]].state = Pending
       /\ \E j \in JobsOfReg(i) : j \notin Dequeued /\ jobs[j].handler.h = "return"

-----------------------------------------------------------------------------
\* candidates of resolve(): values without a then member, objects whose
\* then getter throws, and objects with a callable then (promises, foreign
\* thenables)
PlainVals == {IntV(1), Undefined, ArrV(<<>>), ArrV(<<IntV(1)>>)}
ThrowingVals == {GetterThrowsV(3), GetterThrowsV(4)}
ThenableVals ==
    {PromV(q) : q \in Proms} \cup {ThenableV(b) : b \in {DoubleCall, ThrowingThen}}

\* a host that constructs promises, registers reactions on them and calls
\* the resolve functions with candidates of every class
NextResolve ==
    \/ New({<<Call("keep", Undefined)>>}, MaxProm - 1)
    \/ Then(Proms, {<<NoHandler, NoHandler>>, <<Returns(IntV(1)), Throws(IntV(2))>>},
            MaxProm)
    \/ CallResolve(HostVals)
    \/ CallReject(HostErrs)
    \/ RunQueue
    \/ RunQueueEntry

SpecResolve == Init /\ [][NextResolve]_vars

\* the jobs that a call leading from the current state to st has enqueued
NewJobs(st) == Len(jobs) + 1 .. Len(st.jobs)

-----------------------------------------------------------------------------
\* the reaction jobs with a handler written by the user that were dequeued,
\* and the number of times job j was run
UserJobs ==
    {j \in Dequeued : IsReactionJob(j)
                      /\ jobs[j].handler.h \in {"return", "throw", "register"}}
Runs(j) == Cardinality({i \in 1 .. Len(runLog) : runLog[i] = j})

\* the assimilation jobs made for promise d with thenable v
AssimilationJobs(d, v) ==
    {j \in Jobs : IsThenableJob(j) /\ JobTarget(j) = d /\ jobs[j].thenable = v}

(* C19. Reaction job outcome: a reaction job with a user handler that was  *)
(* dequeued was run once, with the settled value of the promise then() was *)
(* called on.  If the handler returns a value that is not thenable, the    *)
(* derived promise is fulfilled with it, whether the source was fulfilled  *)
(* or rejected; if it throws, the derived promise is rejected with the     *)
(* error thrown; if it returns the derived promise itself, that promise is *)
(* rejected with a TypeError; if it returns another promise q, one         *)
(* assimilation job for q was made, the derived promise is pending until   *)
(* that job was dequeued and q is settled, it then has the state and value *)
(* of q, and it is settled once q is settled and the queue is empty.       *)
C19_ReactionOutcome ==
    \A j \in UserJobs :
       LET d == JobTarget(j)
           h == jobs[j].handler
       IN  /\ Runs(j) = 1
           /\ IsDerived(d)
           /\ prom[Source(d)].state # Pending
           /\ jobs[j].value = prom[Source(d)].value
           /\ prom[d].writes <= 1
           /\ (h.h \in {"return", "register"} /\ h.v.k \in {"int", "undefined", "array"})
              => /\ prom[d].state = Fulfilled
                 /\ prom[d].value = h.v
           /\ h.h = "throw"
              => /\ prom[d].state = Rejected
                 /\ prom[d].value = h.v
           /\ (h.h = "return" /\ h.v = PromV(d))
              => /\ prom[d].state = Rejected
                 /\ prom[d].value = TypeErrorV
           /\ (h.h = "return" /\ h.v.k = "promise" /\ h.v # PromV(d))
              => LET q == h.v.n
                 IN  /\ Cardinality(AssimilationJobs(d, h.v)) = 1
                     /\ \A a \in AssimilationJobs(d, h.v) :
                           /\ a > j
                           /\ prom[d].state # Pending
                              => /\ a \in Dequeued
                                 /\ prom[d].state = prom[q].state
                                 /\ prom[d].value = prom[q].value
                     /\ (Quiescent /\ prom[q].state # Pending)
                        => prom[d].state = prom[q].state

\* a rejection handler has returned 1 for a source rejected with another
\* value: the derived promise is fulfilled with 1
C19_Witness ==
    \E j \in UserJobs :
       /\ jobs[j].handler = Returns(IntV(1))
       /\ prom[Source(JobTarget(j))].state = Rejected
       /\ prom[Source(JobTarget(j))].value # IntV(1)
       /\ prom[JobTarget(j)].state = Fulfilled
       /\ prom[JobTarget(j)].value = IntV(1)

\* a fulfilment handler has returned a promise: the derived promise is
\* pending while the assimilation job waits in the queue
C19_WitnessPending ==
    \E j \in UserJobs :
       /\ jobs[j].handler.h = "return" /\ jobs[j].handler.v.k = "promise"
       /\ jobs[j].handler.v # PromV(JobTarget(j))
       /\ prom[JobTarget(j)].state = Pending
       /\ \E a \in AssimilationJobs(JobTarget(j), jobs[j].handler.v) : a \notin Dequeued

-----------------------------------------------------------------------------
\* the record of the all() call logged as number i: the calls of all() are
\* numbered in call order
AllState(i) == alls[Cardinality({m \in 1 .. i : aggLog[m].fn = "all"})]

\* the inputs of call i that were fulfilled when all() was called
EarlyFulfilled(i) ==
    {n \in 1 .. Len(aggLog[i].list) :
        regLog[RegIndex(aggLog[i].p + n)][3] = Fulfilled}

\* the reaction jobs that call promiseAllElement number n of call i
ElementJobs(i, n) ==
    {j \in Jobs : jobs[j].handler.h = "promiseAllElement"
                  /\ JobTarget(j) = aggLog[i].p + n}

(* C20. The final decrement in all(list): when all() returns, the counter  *)
(* equals the length of the list, so the promise returned is fulfilled at  *)
(* the return exactly when the list is empty, and pending otherwise; for   *)
(* an input that was fulfilled before the call, the call has only enqueued *)
(* the job of its element function.  In every state the counter is the     *)
(* number of elements whose function has not run, and the promise of a     *)
(* non-empty list is fulfilled only after the element job of every input   *)
(* was dequeued; when all inputs are fulfilled it is fulfilled once the    *)
(* queue is empty.                                                         *)
C20_FinalDecrement ==
    /\ [](\A i \in AllCalls :
             LET list == aggLog[i].list
                 p    == aggLog[i].p
             IN  /\ AllState(i).remaining
                       = Len(list) - Cardinality(AllState(i).alreadyCalled)
                 /\ (list # <<>> /\ prom[p].state = Fulfilled)
                    => \A n \in 1 .. Len(list) :
                          \E j \in ElementJobs(i, n) : j \in Dequeued
                 /\ \A n \in EarlyFulfilled(i) : ElementJobs(i, n) # {}
                 /\ (Quiescent /\ \A n \in 1 .. Len(list) : InputFulfilled(list[n]))
                    => prom[p].state = Fulfilled)
    /\ [][(/\ Len(aggLog') = Len(aggLog) + 1
           /\ aggLog'[Len(aggLog')].fn = "all")
          => LET list == aggLog'[Len(aggLog')].list
                 p    == aggLog'[Len(aggLog')].p
             IN  /\ alls'[Len(alls')].remaining = Len(list)
                 /\ prom'[p].state = IF list = <<>> THEN Fulfilled ELSE Pending
                 /\ deqLog' = deqLog /\ runLog' = runLog]_vars

\* all([p]) was called when p was fulfilled, and no job has run since: the
\* promise returned is pending, the counter is 1 and the job of the element
\* function waits in the queue
C20_Witness ==
    \E i \in AllCalls :
       /\ Len(aggLog[i].list) = 1
       /\ EarlyFulfilled(i) = {1}
       /\ prom[aggLog[i].p].state = Pending
       /\ AllState(i).remaining = 1
       /\ \E j \in ElementJobs(i, 1) : j \notin Dequeued /\ j \in Range(Queued)
       /\ pc = "idle"

(* C20 as stated: the promise returned by all(list) is fulfilled from the  *)
(* return of the call on, without a drain, when the list is empty or every *)
(* input was fulfilled when all() was called.                              *)
C20_ImmediateFulfilment ==
    \A i \in AllCalls :
       EarlyFulfilled(i) = 1 .. Len(aggLog[i].list)
       => prom[aggLog[i].p].state = Fulfilled

-----------------------------------------------------------------------------
(* Re-entrant drains: handlers and then methods that call                  *)
(* Promise.runQueue() while the host's Promise.runQueue() runs them.       *)

\* the largest number of promises
MaxNest == 3

\* a then method that calls Promise.runQueue() and then resolve(4)
DrainingThen == <<Step("drain", 0, <<>>), Step("resolve", 4, <<>>)>>

\* handler pairs: one that calls Promise.runQueue() and returns 5, one that
\* returns 3, none
NestedHandlers ==
    {<<Drains(IntV(5)), Drains(IntV(5))>>,
     <<Returns(IntV(3)), NoHandler>>,
     <<NoHandler, NoHandler>>}

NextNested ==
    \/ New({<<Call("keep", Undefined)>>}, MaxNest - 1)
    \/ Then(Proms, NestedHandlers, MaxNest)
    \/ CallResolve({IntV(1), ThenableV(DrainingThen)})
    \/ CallReject({IntV(2)})
    \/ RunQueue
    \/ RunQueueEntry

SpecNested == Init /\ [][NextNested]_vars


\* the calls of Promise.runQueue() made while a job ran, and the jobs a
\* call dequeued
NestedCalls == 1 .. Len(nestLog)
NestedJobs(n) == nestLog[n].from + 1 .. nestLog[n].to

(* C21. Re-entrant drain: also when handlers and then methods call         *)
(* Promise.runQueue() while a job runs, the jobs are dequeued in the order *)
(* in which they were enqueued, each once, and started in that order, each *)
(* once.  A nested call returns with the queue empty, having dequeued      *)
(* every job made until then; the job that made it was dequeued before the *)
(* call and its promise is the next promise to be settled after the call   *)
(* returns, with the job's own outcome: the value its handler returns, or  *)
(* the value its then method passes to resolve.  When the host's call of   *)
(* Promise.runQueue() returns, the queue is empty and every job made has   *)
(* been dequeued.                                                          *)
C21_ReentrantDrain ==
    /\ [](/\ deqLog = [i \in 1 .. Len(deqLog) |-> i]
          /\ runLog = deqLog
          /\ \A n \in NestedCalls :
                LET c == nestLog[n]
                    j == c.after
                    d == JobTarget(j)
                IN  /\ j \in Dequeued
                    /\ j <= c.from /\ c.from <= c.to
                    /\ c.to = c.enq
                    /\ prom[d].seq = c.settled + 1
                    /\ prom[d].writes = 1
                    /\ IsReactionJob(j)
                       => /\ jobs[j].handler.h = "drain"
                          /\ prom[d].state = Fulfilled
                          /\ prom[d].value = jobs[j].handler.v
                    /\ IsThenableJob(j)
                       => /\ jobs[j].thenable = ThenableV(DrainingThen)
                          /\ prom[d].state = Fulfilled
                          /\ prom[d].value = IntV(4))
    /\ [][(pc = "runQueue" /\ pc' = "idle")
          => (queueHead' = 0 /\ Len(deqLog') = Len(jobs'))]_vars

\* a handler has called Promise.runQueue() while the host's drain ran it,
\* the nested call has run a handler that returned 3, and the derived
\* promise of the caller is fulfilled with its own 5
C21_Witness ==
    /\ Quiescent
    /\ \E n \in NestedCalls :
          LET j == nestLog[n].after
          IN  /\ IsReactionJob(j) /\ jobs[j].handler = Drains(IntV(5))
              /\ prom[JobTarget(j)].state = Fulfilled
              /\ prom[JobTarget(j)].value = IntV(5)
              /\ \E m \in NestedJobs(n) :
                    /\ jobs[m].handler = Returns(IntV(3))
                    /\ prom[JobTarget(m)].state = Fulfilled
                    /\ prom[JobTarget(m)].value = IntV(3)

\* a then method has called Promise.runQueue(), which ran a handler that
\* itself called Promise.runQueue()
C21_WitnessThenable ==
    \E n, m \in NestedCalls :
       /\ IsThenableJob(nestLog[n].after)
       /\ IsReactionJob(nestLog[m].after)
       /\ nestLog[m].after \in NestedJobs(n)
       /\ prom[JobTarget(nestLog[n].after)].value = IntV(4)

=============================================================================
